---- MODULE Spec2Model ----
(***************************************************************************)
(* LottoGen (src/LottoGen.py): the historical-draw acquisition and          *)
(* statistics engine.                                                        *)
(*                                                                           *)
(*   fetch_archives_with_fallback  - FetchSpec                               *)
(*   dedupe_by_date                - DedupeSpec                              *)
(*   compute_stats                 - StatsSpec                               *)
(*   smart_weight, smart_pick,                                               *)
(*   top_probability_line          - LineSpec, HotSpec                       *)
(*   try_parse_date,                                                         *)
(*   parse_wclc_print              - ParseSpec                               *)
(*   LottoApp: update_history, _update_worker,                               *)
(*   generate_*_with_bonus         - AppSpec                                 *)
(*                                                                           *)
(* Conventions.  A Python tuple (d, main, bonus) is the TLA+ tuple           *)
(* <<d, main, bonus>>.  ISO date strings are the integers 1..MaxDate in      *)
(* chronological order (ISO strings compare as their dates do), and the      *)
(* integer YYYYMMDD where try_parse_date makes them from a text; Python's    *)
(* None is the value None, which is no date, no number and no position.      *)
(* A Python list indexed from 0 (freq, last_seen, base) is a function on     *)
(* 0..max_n.  A dict is a function on its key set.                           *)
(***************************************************************************)
EXTENDS Integers, Sequences, FiniteSets, Bags, TLC

VARIABLES
    pc,         \* position of the operation being run
    game,       \* fetch: game_key
    avail,      \* fetch: requests and BeautifulSoup were imported (lines 15-20)
    hasSink,    \* fetch: progress_cb is not None
    gi,         \* fetch: index of the group of cfg["sources"] being tried
    ui,         \* fetch: index of the next url of group["urls"]
    all_draws,  \* fetch: the group's accumulated records
    progress,   \* fetch: what progress_cb has received, in order
    attempts,   \* fetch: the requests.get calls made, in order, with their outcome
    ret,        \* fetch: the returned (records, label), NoRet before the return
    raised,     \* fetch: an exception left fetch_archives_with_fallback
    dd_in,      \* dedupe: the argument draws
    dd_out,     \* dedupe: the returned list
    draws,      \* stats: the argument draws
    lookback,   \* stats: the argument lookback
    stats,      \* stats: the returned snapshot
    flavor,     \* lines: the argument flavor
    base,       \* lines: smart_pick's weight list
    picks,      \* lines: smart_pick's set of picks
    iters,      \* lines: iterations of smart_pick's loop so far
    line,       \* lines: the line returned by smart_pick
    top,        \* lines: the line returned by the first top_probability_line call
    top2,       \* lines: the line returned by a second top_probability_line call
    text,       \* parse: the page text, soup.get_text(" ", strip=True), as tokens
    parsed,     \* parse: the list returned by parse_wclc_print
    draw_cache, \* app: LottoApp.draw_cache
    stats_cache, \* app: LottoApp.stats_cache
    lookback_var, \* app: LottoApp.lookback_var
    flavor_var, \* app: LottoApp.flavor_var
    updates,    \* app: calls of update_history so far
    workers,    \* app: the _update_worker threads running, each its position and locals
    gen         \* app: the last generate_*_with_bonus handler of the main thread: its locals, calls and display

fetchVars == <<game, avail, hasSink, gi, ui, all_draws, progress, attempts, ret, raised>>
dedupeVars == <<dd_in, dd_out>>
statsVars == <<draws, lookback, stats>>
lineVars == <<flavor, base, picks, iters, line, top, top2>>
parseVars == <<text, parsed>>
appVars == <<draw_cache, stats_cache, lookback_var, flavor_var, updates, workers, gen>>
vars == <<pc, fetchVars, dedupeVars, statsVars, lineVars, parseVars, appVars>>

(***************************************************************************)
(* Bounds of the model.                                                      *)
(***************************************************************************)
MaxN == 3        \* max_n of the model's first game (49 in GAMES)
Count == 2       \* count of the model's first game (6 in GAMES)
MaxDate == 2     \* distinct calendar dates a page can carry
MaxLen == 3      \* longest raw record list given to dedupe_by_date
MaxDraws == 2    \* longest draw list given to compute_stats
MaxLookback == 3 \* largest lookback given to compute_stats
MaxLineDraws == 1 \* longest draw list behind the snapshot given to the line pickers

None == 0

(***************************************************************************)
(* Generic helpers.                                                          *)
(***************************************************************************)
Range(s) == {s[i] : i \in DOMAIN s}

SeqsUpTo(S, n) == UNION {[1..k -> S] : k \in 0..n}

Min(S) == CHOOSE x \in S : \A y \in S : x <= y

RECURSIVE Flatten(_)
Flatten(ss) == IF ss = <<>> THEN <<>> ELSE Head(ss) \o Flatten(Tail(ss))

RECURSIVE SumSeq(_)
SumSeq(s) == IF s = <<>> THEN 0 ELSE Head(s) + SumSeq(Tail(s))

(***************************************************************************)
(* GAMES (lines 35-70).  Both games list the same three providers: WCLC      *)
(* with two urls and the print-layout parser, OLG with two urls and ALC      *)
(* with one, both with the generic table parser.  The second game draws      *)
(* one more number from a universe one larger (7 of 50 against 6 of 49).     *)
(***************************************************************************)
GameKeys == {"Lotto 6/49", "Lotto Max"}

GAMES ==
    [g \in GameKeys |->
        [count |-> IF g = "Lotto 6/49" THEN Count ELSE Count + 1,
         max_n |-> IF g = "Lotto 6/49" THEN MaxN ELSE MaxN + 1,
         sources |->
            << [label |-> "WCLC", parser |-> "wclc",
                urls |-> IF g = "Lotto 6/49"
                    THEN << "https://www.wclc.com/winning-numbers/lotto-649-extra.htm?channel=print",
                            "https://www.wclc.com/winning-numbers/lotto-649-extra.htm?channel=print&printMode=true" >>
                    ELSE << "https://www.wclc.com/winning-numbers/lotto-max-extra.htm?channel=print",
                            "https://www.wclc.com/winning-numbers/lotto-max-extra.htm?channel=print&printMode=true" >>],
               [label |-> "OLG", parser |-> "generic",
                urls |-> IF g = "Lotto 6/49"
                    THEN << "https://www.olg.ca/en/lottery/play-lotto-649-encore/past-results.html",
                            "https://lottery.olg.ca/en-ca/winning-numbers/lotto-6-49" >>
                    ELSE << "https://www.olg.ca/en/lottery/play-lotto-max-encore/past-results.html",
                            "https://lottery.olg.ca/en-ca/winning-numbers/lotto-max" >>],
               [label |-> "ALC", parser |-> "generic",
                urls |-> << "https://www.alc.ca/content/alc/en/winning-numbers.html" >>] >>]]

(***************************************************************************)
(* dedupe_by_date (lines 91-95).                                             *)
(***************************************************************************)
\* uniq[d] = (main, bonus): the key is added, or its value overwritten.
DictSet(uniq, d, v) == [k \in (DOMAIN uniq) \cup {d} |-> IF k = d THEN v ELSE uniq[k]]

\* for d, main, bonus in draws: uniq[d] = (main, bonus)
RECURSIVE UniqFrom(_, _)
UniqFrom(uniq, ds) ==
    IF ds = <<>> THEN uniq
    ELSE UniqFrom(DictSet(uniq, Head(ds)[1], <<Head(ds)[2], Head(ds)[3]>>), Tail(ds))

\* sorted(uniq.keys()) raises TypeError when it has to compare None with a
\* str: a key set holding None and a date.  None alone sorts.
SortedRaises(K) == None \in K /\ K # {None}

RECURSIVE Sorted(_)
Sorted(K) == IF K = {} THEN <<>> ELSE <<Min(K)>> \o Sorted(K \ {Min(K)})

DedupeRaises(ds) == SortedRaises(DOMAIN UniqFrom(<<>>, ds))

DedupeDropsOverwrite(ds) ==
    LET first(d) == ds[Min({i \in DOMAIN ds : ds[i][1] = d})]
        keys == Sorted({ds[i][1] : i \in DOMAIN ds})
    IN  [i \in DOMAIN keys |-> first(keys[i])]

dedupe_by_date(ds) ==
    LET uniq == UniqFrom(<<>>, ds)
        keys == Sorted(DOMAIN uniq)
    IN  [i \in DOMAIN keys |-> <<keys[i], uniq[keys[i]][1], uniq[keys[i]][2]>>]

(***************************************************************************)
(* What a parser can return for a page (lines 97-142).  Both parsers end in  *)
(* dedupe_by_date, so a returned list has one record per date, ascending.    *)
(*                                                                           *)
(* parse_wclc_print hands try_parse_date the text matched by                 *)
(* "<Month> <day>,? <year>".  try_parse_date strips the commas, and of       *)
(* DATE_PATTERNS the first needs a weekday name in front and the other two   *)
(* need the commas it has just stripped: every format fails and date_iso is  *)
(* None for every block (line 109).  The records of a page all carry the     *)
(* key None, so the page yields no record or exactly one, dated None.        *)
(*                                                                           *)
(* parse_generic_tables skips a row without a date (lines 129-130): its      *)
(* records carry real dates.                                                 *)
(***************************************************************************)
\* The (main, bonus) a record of a page can carry: two different lines, one
\* without a bonus number and one with.
FetchPayloads(g) ==
    { << [i \in 1..GAMES[g].count |-> i], None >>,
      << [i \in 1..GAMES[g].count |-> i + 1], GAMES[g].max_n >> }

WclcParsed(g) ==
    {<<>>} \cup { << <<None, p[1], p[2]>> >> : p \in FetchPayloads(g) }

GenericParsed(g) ==
    UNION { { [i \in DOMAIN Sorted(D) |-> <<Sorted(D)[i], pay[Sorted(D)[i]][1], pay[Sorted(D)[i]][2]>>]
                : pay \in [D -> FetchPayloads(g)] }
            : D \in SUBSET (1..MaxDate) }

Parsed(g, parser) == IF parser = "wclc" THEN WclcParsed(g) ELSE GenericParsed(g)

\* The outcome of one url: a response whose status_code is not 200, an
\* exception of requests.get, BeautifulSoup or the parser, or a parsed page.
Outcomes(g, parser) ==
    { [kind |-> "http", parsed |-> <<>>], [kind |-> "exc", parsed |-> <<>>] }
    \cup { [kind |-> "ok", parsed |-> p] : p \in Parsed(g, parser) }

(***************************************************************************)
(* fetch_archives_with_fallback (lines 144-169).                             *)
(***************************************************************************)
NoRet == <<>>

Groups(g) == GAMES[g].sources

UrlEventsSilentError(label, url, o) ==
    IF o.kind = "http" THEN << [label |-> label, kind |-> "Skip", url |-> url, n |-> None] >>
    ELSE IF o.kind = "ok" THEN << [label |-> label, kind |-> "Parsed", url |-> url, n |-> Len(o.parsed)] >>
    ELSE <<>>

\* The progress_cb calls of one url: line 157, line 161 or line 165.
UrlEvents(label, url, o) ==
    IF o.kind = "http" THEN << [label |-> label, kind |-> "Skip", url |-> url, n |-> None] >>
    ELSE IF o.kind = "ok" THEN << [label |-> label, kind |-> "Parsed", url |-> url, n |-> Len(o.parsed)] >>
    ELSE << [label |-> label, kind |-> "Error", url |-> url, n |-> None] >>

NextUrlAbortsOnError(u, n, o) == IF o.kind = "exc" THEN n + 1 ELSE u + 1

\* The url the loop of line 153 goes on with after url u of n: the next one,
\* after the continue of line 158, the handler of lines 164-165 and line 163.
NextUrl(u, n, o) == u + 1

\* all_draws.extend(parsed), reached for a parsed page only (line 162).
Extend(all, o) == IF o.kind = "ok" THEN all \o o.parsed ELSE all

FetchInit ==
    /\ pc = "fetch_entry"
    /\ game \in GameKeys
    /\ avail \in BOOLEAN
    /\ hasSink \in BOOLEAN
    /\ gi = 1
    /\ ui = 1
    /\ all_draws = <<>>
    /\ progress = <<>>
    /\ attempts = <<>>
    /\ ret = NoRet
    /\ raised = FALSE

FetchIdle ==
    /\ game = "Lotto 6/49"
    /\ avail = TRUE
    /\ hasSink = TRUE
    /\ gi = 1
    /\ ui = 1
    /\ all_draws = <<>>
    /\ progress = <<>>
    /\ attempts = <<>>
    /\ ret = NoRet
    /\ raised = FALSE

FetchEnterNoOfflineCheck ==
    /\ pc = "fetch_entry"
    /\ pc' = "fetch_urls"
    /\ UNCHANGED <<fetchVars, dedupeVars, statsVars, lineVars>>
    /\ UNCHANGED <<parseVars, appVars>>

\* lines 145-148: without requests or BeautifulSoup, return [], "offline".
FetchEnter ==
    /\ pc = "fetch_entry"
    /\ pc' = IF avail THEN "fetch_urls" ELSE "fetch_done"
    /\ ret' = IF avail THEN ret ELSE << <<>>, "offline" >>
    /\ UNCHANGED <<game, avail, hasSink, gi, ui, all_draws, progress, attempts, raised>>
    /\ UNCHANGED <<dedupeVars, statsVars, lineVars>>
    /\ UNCHANGED <<parseVars, appVars>>

\* lines 153-165: one iteration of the loop over group["urls"].
FetchUrl ==
    /\ pc = "fetch_urls"
    /\ ui <= Len(Groups(game)[gi].urls)
    /\ LET group == Groups(game)[gi]
           url == group.urls[ui]
       IN  \E o \in Outcomes(game, group.parser) :
            /\ attempts' = Append(attempts, [g |-> gi, u |-> ui, kind |-> o.kind, parsed |-> o.parsed])
            /\ progress' = IF hasSink THEN progress \o UrlEvents(group.label, url, o) ELSE progress
            /\ all_draws' = Extend(all_draws, o)
            /\ ui' = NextUrl(ui, Len(group.urls), o)
    /\ UNCHANGED <<pc, game, avail, hasSink, gi, ret, raised>>
    /\ UNCHANGED <<dedupeVars, statsVars, lineVars>>
    /\ UNCHANGED <<parseVars, appVars>>

GroupEndNoShortCircuit ==
    /\ pc = "fetch_urls"
    /\ ui > Len(Groups(game)[gi].urls)
    /\ LET d == dedupe_by_date(all_draws)
           last == gi = Len(Groups(game))
       IN  /\ raised' = FALSE
           /\ all_draws' = IF last THEN d ELSE all_draws
           /\ ret' = IF ~last THEN ret
                     ELSE IF d # <<>> THEN <<d, Groups(game)[gi].label>> ELSE << <<>>, "none" >>
           /\ pc' = IF last THEN "fetch_done" ELSE pc
           /\ gi' = IF last THEN gi ELSE gi + 1
           /\ ui' = IF last THEN ui ELSE 1
    /\ UNCHANGED <<game, avail, hasSink, progress, attempts>>
    /\ UNCHANGED <<dedupeVars, statsVars, lineVars>>
    /\ UNCHANGED <<parseVars, appVars>>

\* lines 166-169, and lines 149-152 of the next group: the group's records are
\* deduplicated (outside the try); a non-empty list is returned with the
\* group's label, an empty one leads to the next group, or to [], "none".
GroupEnd ==
    /\ pc = "fetch_urls"
    /\ ui > Len(Groups(game)[gi].urls)
    /\ LET fails == DedupeRaises(all_draws)
           d == IF fails THEN <<>> ELSE dedupe_by_date(all_draws)
           last == gi = Len(Groups(game))
       IN  /\ raised' = fails
           /\ all_draws' = IF fails THEN all_draws ELSE IF d = <<>> /\ ~last THEN <<>> ELSE d
           /\ ret' = IF fails THEN ret
                     ELSE IF d # <<>> THEN <<d, Groups(game)[gi].label>>
                     ELSE IF last THEN << <<>>, "none" >> ELSE ret
           /\ pc' = IF fails \/ d # <<>> \/ last THEN "fetch_done" ELSE pc
           /\ gi' = IF fails \/ d # <<>> \/ last THEN gi ELSE gi + 1
           /\ ui' = IF fails \/ d # <<>> \/ last THEN ui ELSE 1
    /\ UNCHANGED <<game, avail, hasSink, progress, attempts>>
    /\ UNCHANGED <<dedupeVars, statsVars, lineVars>>
    /\ UNCHANGED <<parseVars, appVars>>

FetchNext == FetchEnter \/ FetchUrl \/ GroupEnd

(***************************************************************************)
(* dedupe_by_date as an operation on a raw record list.  The lists the       *)
(* program builds carry either dates throughout (parse_generic_tables, and   *)
(* the groups read with it) or None throughout (parse_wclc_print, and the    *)
(* group read with it); sorted() raises on any other list.                   *)
(***************************************************************************)
RawRecords(D) == { <<d, p[1], p[2]>> : d \in D, p \in FetchPayloads("Lotto 6/49") }

RawLists == SeqsUpTo(RawRecords(1..MaxDate), MaxLen) \cup SeqsUpTo(RawRecords({None}), MaxLen)

DedupeInit ==
    /\ pc = "dedupe_entry"
    /\ dd_in \in RawLists
    /\ dd_out = <<>>

\* lines 91-95
Dedupe ==
    /\ pc = "dedupe_entry"
    /\ pc' = IF DedupeRaises(dd_in) THEN "dedupe_raised" ELSE "dedupe_done"
    /\ dd_out' = IF DedupeRaises(dd_in) THEN dd_out ELSE dedupe_by_date(dd_in)
    /\ UNCHANGED <<dd_in, fetchVars, statsVars, lineVars>>
    /\ UNCHANGED <<parseVars, appVars>>

DedupeNext == Dedupe

(***************************************************************************)
(* compute_stats (lines 172-188).                                            *)
(***************************************************************************)
\* Python's sort is stable, with reverse=True too: items of equal key keep
\* their order.  The items are pairs (n, key).
RECURSIVE Insert(_, _, _)
Insert(x, s, reverse) ==
    IF s = <<>> THEN <<x>>
    ELSE IF (IF reverse THEN x[2] > Head(s)[2] ELSE x[2] < Head(s)[2])
         THEN <<x>> \o s
         ELSE <<Head(s)>> \o Insert(x, Tail(s), reverse)

RECURSIVE StableSort(_, _)
StableSort(s, reverse) ==
    IF s = <<>> THEN <<>>
    ELSE Insert(s[Len(s)], StableSort(SubSeq(s, 1, Len(s) - 1), reverse), reverse)

NumberRangeShort(max_n) == [i \in 1..(max_n - 1) |-> i]

\* range(1, max_n+1)
NumberRange(max_n) == [i \in 1..max_n |-> i]

\* draws[-lookback:] when lookback is truthy (neither None nor 0), else draws
Trailing(ds, lb) ==
    IF lb # None THEN SubSeq(ds, IF Len(ds) > lb THEN Len(ds) - lb + 1 ELSE 1, Len(ds)) ELSE ds

CountMainOncePerDraw(st, main) ==
    [st EXCEPT !.freq = [n \in DOMAIN st.freq |-> IF n \in Range(main) THEN st.freq[n] + 1 ELSE st.freq[n]],
               !.last_seen = [n \in DOMAIN st.last_seen |-> IF n \in Range(main) THEN st.i ELSE st.last_seen[n]]]

\* for n in main: freq[n] += 1; last_seen[n] = i      (lines 180-182)
RECURSIVE CountMain(_, _)
CountMain(st, main) ==
    IF main = <<>> THEN st
    ELSE CountMain([st EXCEPT !.freq[Head(main)] = @ + 1, !.last_seen[Head(main)] = st.i], Tail(main))

\* for d, main, bonus in draws: i += 1; ...            (lines 178-182)
RECURSIVE Tally(_, _)
Tally(st, ds) ==
    IF ds = <<>> THEN st
    ELSE Tally(CountMain([st EXCEPT !.i = @ + 1], Head(ds)[2]), Tail(ds))

compute_stats(ds, max_n, count, lb) ==
    IF ds = <<>> THEN <<>>
    ELSE LET st == Tally([freq |-> [n \in 0..max_n |-> 0],
                          last_seen |-> [n \in 0..max_n |-> None],
                          i |-> 0], Trailing(ds, lb))
             cur == st.i + 1
             nums == NumberRange(max_n)
             gaps == [k \in DOMAIN nums |->
                        <<nums[k], IF st.last_seen[nums[k]] # None THEN cur - st.last_seen[nums[k]] ELSE cur>>]
             freqs == [k \in DOMAIN nums |-> <<nums[k], st.freq[nums[k]]>>]
         IN  [freq |-> st.freq,
              last_seen |-> st.last_seen,
              hot |-> StableSort(freqs, TRUE),
              cold |-> StableSort(freqs, FALSE),
              overdue |-> StableSort(gaps, TRUE),
              sample_size |-> st.i]

\* The draw lists compute_stats is given are those fetch_archives_with_fallback
\* returns: one record dated None from the print-layout parser, whose main
\* numbers may repeat (line 112), or records of ascending dates from the
\* generic parser, whose main numbers are distinct (lines 134-139).
Mains(max_n, count) == [1..count -> 1..max_n]

DistinctMains(max_n, count) == { m \in Mains(max_n, count) : Cardinality(Range(m)) = count }

DrawLists(max_n, count, maxlen) ==
    { << <<None, m, None>> >> : m \in Mains(max_n, count) }
    \cup UNION { { [i \in 1..k |-> <<i, ms[i], None>>] : ms \in [1..k -> DistinctMains(max_n, count)] }
                 : k \in 0..maxlen }

Lookbacks == {None} \cup 1..MaxLookback

StatsInit ==
    /\ pc = "stats_entry"
    /\ draws \in DrawLists(MaxN, Count, MaxDraws)
    /\ lookback \in Lookbacks
    /\ stats = <<>>

ComputeStats ==
    /\ pc = "stats_entry"
    /\ stats' = compute_stats(draws, MaxN, Count, lookback)
    /\ pc' = "stats_done"
    /\ UNCHANGED <<draws, lookback, fetchVars, dedupeVars, lineVars>>
    /\ UNCHANGED <<parseVars, appVars>>

StatsNext == ComputeStats

(***************************************************************************)
(* Python floats (IEEE 754 binary64), as far as smart_weight uses them:      *)
(* true division of two ints, multiplication by 2.0, 0.5 and 1.0, addition   *)
(* and comparison, every result rounded to Precision significant bits, ties  *)
(* to even.  A float x with 0 <= x < Limb is written in base Limb as the     *)
(* sequence of NLimbs digits <<x1, ..., xN>> with x = x1 + x2/Limb + ... :   *)
(* one digit before the point and NLimbs - 1 after it.  Bit i of x, from 1   *)
(* to NLimbs * LimbBits, is the bit of weight 2^(LimbBits - i).  Every float *)
(* of smart_weight is on this grid, and leaves a bit of it for rounding,     *)
(* while max_n < 2^11: the least of them, 0.5 * (1 / max_n), has its last    *)
(* bit at bit NLimbs * LimbBits or above.                                    *)
(***************************************************************************)
Precision == 53
LimbBits == 16
Limb == 2^LimbBits
NLimbs == 5

\* 0.0 and 1.0
FZero == [i \in 1..NLimbs |-> 0]
FOne == [i \in 1..NLimbs |-> IF i = 1 THEN 1 ELSE 0]

Max(S) == CHOOSE x \in S : \A y \in S : y <= x

\* The digit that holds bit i, and the weight of bit i within that digit
LimbOf(i) == ((i - 1) \div LimbBits) + 1
WeightIn(i) == 2^(LimbBits - 1 - ((i - 1) % LimbBits))

\* The first bit of x that is 1 (x is not 0.0)
LeadBit(x) ==
    LET j == Min({i \in 1..NLimbs : x[i] # 0})
    IN  (j - 1) * LimbBits + (LimbBits - Max({b \in 0..(LimbBits - 1) : x[j] >= 2^b}))

\* x with 1 added at some bit of digit q, where adding it to digit q carries
\* out of q: the digits before q that are full turn 0, the one before them
\* takes the carry.
CarryUp(x, q) ==
    LET j == Max({i \in 1..(q - 1) : x[i] # Limb - 1})
    IN  [i \in 1..NLimbs |-> IF i < j THEN x[i] ELSE IF i = j THEN x[i] + 1 ELSE 0]

\* The float nearest to x + t, where x is on the grid and t is less than its
\* last bit; inexact says that t > 0.  A tie goes to the even significand.
FRound(x, inexact) ==
    IF x = FZero THEN FZero
    ELSE LET p == LeadBit(x) + Precision - 1
         IN  IF p >= NLimbs * LimbBits THEN x
             ELSE LET q == LimbOf(p)
                      w == WeightIn(p)
                      after == \E i \in (q + 1)..NLimbs : x[i] # 0
                      guard == IF w > 1 THEN x[q] % w >= w \div 2 ELSE x[q + 1] >= Limb \div 2
                      more == \/ inexact
                              \/ IF w > 1 THEN x[q] % (w \div 2) # 0 \/ after
                                 ELSE x[q + 1] % (Limb \div 2) # 0
                                      \/ \E i \in (q + 2)..NLimbs : x[i] # 0
                      odd == (x[q] \div w) % 2 = 1
                      trunc == [i \in 1..NLimbs |->
                                    IF i < q THEN x[i] ELSE IF i = q THEN x[q] - (x[q] % w) ELSE 0]
                  IN  IF guard /\ (more \/ odd)
                      THEN IF trunc[q] + w < Limb THEN [trunc EXCEPT ![q] = trunc[q] + w]
                           ELSE CarryUp(trunc, q)
                      ELSE trunc

\* What is left of r / d (0 <= r < d < 2^15) after n digits of the quotient, times d
RECURSIVE FracRest(_, _, _)
FracRest(r, d, n) == IF n = 0 THEN r ELSE (FracRest(r, d, n - 1) * Limb) % d

\* Digit n of r / d after the point
FracDigit(r, d, n) == (FracRest(r, d, n - 1) * Limb) \div d

\* a / d for ints 0 <= a, 0 < d with a / d < Limb (Python's true division,
\* correctly rounded)
FDiv(a, d) ==
    FRound([i \in 1..NLimbs |-> IF i = 1 THEN a \div d ELSE FracDigit(a % d, d, i - 1)],
           FracRest(a % d, d, NLimbs - 1) # 0)

\* 2.0 * x and 0.5 * x: exact
FTwice(x) ==
    [i \in 1..NLimbs |->
        ((2 * x[i]) % Limb) + (IF i < NLimbs /\ x[IF i < NLimbs THEN i + 1 ELSE i] >= Limb \div 2 THEN 1 ELSE 0)]

FHalf(x) ==
    [i \in 1..NLimbs |->
        (x[i] \div 2) + (IF i > 1 /\ x[IF i > 1 THEN i - 1 ELSE i] % 2 = 1 THEN Limb \div 2 ELSE 0)]

\* The sum of the digit sequences x and y has a carry into digit i: some
\* digit after i overflows and every digit between is full.
CarryInto(x, y, i) ==
    \E j \in (i + 1)..NLimbs :
        /\ x[j] + y[j] >= Limb
        /\ \A k \in (i + 1)..(j - 1) : x[k] + y[k] = Limb - 1

\* x + y
FAdd(x, y) ==
    FRound([i \in 1..NLimbs |-> (x[i] + y[i] + (IF CarryInto(x, y, i) THEN 1 ELSE 0)) % Limb],
           FALSE)

\* x < y
FLess(x, y) == \E i \in 1..NLimbs : x[i] < y[i] /\ \A j \in 1..(i - 1) : x[j] = y[j]

(***************************************************************************)
(* smart_weight (lines 190-203).  base is a list of floats: 1.0 at index 0,  *)
(* and 1.0 + (a*hr + b*orank) at n, each operation rounded as Python rounds  *)
(* it.  A weight zeroed by smart_pick is 0.0.                                *)
(***************************************************************************)
Flavors == {"balanced", "hot", "overdue"}

\* {n: i+1 for i, (n, _) in enumerate(ranking)}
RankOf(ranking) ==
    [n \in {ranking[k][1] : k \in DOMAIN ranking} |->
        CHOOSE k \in DOMAIN ranking : ranking[k][1] = n /\ \A j \in DOMAIN ranking : ranking[j][1] = n => j <= k]

smart_weight(st, max_n, fl) ==
    LET hot_rank == RankOf(st.hot)
        overdue_rank == RankOf(st.overdue)
        hr(n) == FDiv(Len(st.hot) + 1 - hot_rank[n], Len(st.hot))
        orank(n) == FDiv(Len(st.overdue) + 1 - overdue_rank[n], Len(st.overdue))
    IN  [n \in 0..max_n |->
            IF n = 0 THEN FOne
            ELSE IF fl = "hot" THEN FAdd(FOne, FAdd(FTwice(hr(n)), FHalf(orank(n))))
            ELSE IF fl = "overdue" THEN FAdd(FOne, FAdd(FTwice(orank(n)), FHalf(hr(n))))
            ELSE FAdd(FOne, FAdd(hr(n), orank(n)))]

(***************************************************************************)
(* smart_pick (lines 205-211).  random.choices(range(1, max_n+1),            *)
(* weights=base[1:], k=1) draws x = random() * total with 0 <= x < total and *)
(* returns the first number whose cumulative weight exceeds x: a number of   *)
(* weight 0 has the cumulative weight of its predecessor and is never        *)
(* returned, every number of positive weight can be.  It raises ValueError   *)
(* when the total weight is 0.                                               *)
(***************************************************************************)
ChoicesIgnoringWeights(b, max_n) == 1..max_n

Choices(b, max_n) == {n \in 1..max_n : FLess(FZero, b[n])}

\* sorted(picks)
SortedSet(S) == Sorted(S)

\* sorted(..., key=lambda n: base[n], reverse=...): the stable sort of
\* compute_stats, on items (n, base[n]) whose keys are floats.
RECURSIVE InsertByWeight(_, _, _)
InsertByWeight(x, s, reverse) ==
    IF s = <<>> THEN <<x>>
    ELSE IF (IF reverse THEN FLess(Head(s)[2], x[2]) ELSE FLess(x[2], Head(s)[2]))
         THEN <<x>> \o s
         ELSE <<Head(s)>> \o InsertByWeight(x, Tail(s), reverse)

RECURSIVE SortByWeight(_, _)
SortByWeight(s, reverse) ==
    IF s = <<>> THEN <<>>
    ELSE InsertByWeight(s[Len(s)], SortByWeight(SubSeq(s, 1, Len(s) - 1), reverse), reverse)

\* top_probability_line ranking the list the last smart_pick worked on, when
\* there is one, instead of a list of its own.
TopLineOnSharedWeights(st, max_n, count, fl) ==
    LET b == IF base = <<>> THEN smart_weight(st, max_n, fl) ELSE base
        ranking == SortByWeight([k \in 1..max_n |-> <<NumberRange(max_n)[k], b[NumberRange(max_n)[k]]>>], TRUE)
    IN  Sorted({ranking[k][1] : k \in 1..count})

\* top_probability_line (lines 213-217): base is a list smart_weight builds
\* for this call (lines 214, 191); ranking[:count] of the numbers sorted by
\* weight, highest first, then sorted ascending.
top_probability_line(st, max_n, count, fl) ==
    LET b == smart_weight(st, max_n, fl)
        ranking == SortByWeight([k \in 1..max_n |-> <<NumberRange(max_n)[k], b[NumberRange(max_n)[k]]>>], TRUE)
    IN  Sorted({ranking[k][1] : k \in 1..count})

(***************************************************************************)
(* The pickers called on one snapshot, as the handlers call them (lines      *)
(* 383-384, 395-396, and again on the next click): top_probability_line,     *)
(* then either top_probability_line again, or smart_pick and then            *)
(* top_probability_line again.  The variable base is the list smart_pick got *)
(* from smart_weight and zeroes as it picks; it is kept as smart_pick left   *)
(* it.                                                                       *)
(***************************************************************************)
\* The snapshot the pickers are given comes from compute_stats on a non-empty
\* draw list: the callers test it first (lines 383, 392).
LineInit ==
    /\ pc = "line_entry"
    /\ draws \in DrawLists(MaxN, Count, MaxLineDraws) \ {<<>>}
    /\ lookback \in Lookbacks
    /\ stats = compute_stats(draws, MaxN, Count, lookback)
    /\ flavor \in Flavors
    /\ base = <<>>
    /\ picks = {}
    /\ iters = 0
    /\ line = <<>>
    /\ top = <<>>
    /\ top2 = <<>>

\* lines 206-207
PickStart ==
    /\ pc = "top_once"
    /\ base' = smart_weight(stats, MaxN, flavor)
    /\ picks' = {}
    /\ pc' = "pick_loop"
    /\ UNCHANGED <<flavor, iters, line, top, top2, fetchVars, dedupeVars, statsVars>>
    /\ UNCHANGED <<parseVars, appVars>>

\* lines 208-210: one iteration of the while loop
PickStep ==
    /\ pc = "pick_loop"
    /\ Cardinality(picks) < Count
    /\ \E i \in Choices(base, MaxN) :
        /\ picks' = picks \cup {i}
        /\ base' = [base EXCEPT ![i] = FZero]
    /\ iters' = iters + 1
    /\ UNCHANGED <<pc, flavor, line, top, top2, fetchVars, dedupeVars, statsVars>>
    /\ UNCHANGED <<parseVars, appVars>>

\* line 211
PickReturn ==
    /\ pc = "pick_loop"
    /\ ~(Cardinality(picks) < Count)
    /\ line' = SortedSet(picks)
    /\ pc' = "pick_done"
    /\ UNCHANGED <<flavor, base, picks, iters, top, top2, fetchVars, dedupeVars, statsVars>>
    /\ UNCHANGED <<parseVars, appVars>>

\* A first call of top_probability_line ...
TopLine ==
    /\ pc = "line_entry"
    /\ top' = top_probability_line(stats, MaxN, Count, flavor)
    /\ pc' = "top_once"
    /\ UNCHANGED <<flavor, base, picks, iters, line, top2, fetchVars, dedupeVars, statsVars>>
    /\ UNCHANGED <<parseVars, appVars>>

\* ... and a second one with the same arguments, after whatever smart_pick
\* did in between.
TopLineAgain ==
    /\ pc \in {"top_once", "pick_done"}
    /\ top2' = top_probability_line(stats, MaxN, Count, flavor)
    /\ pc' = "top_done"
    /\ UNCHANGED <<flavor, base, picks, iters, line, top, fetchVars, dedupeVars, statsVars>>
    /\ UNCHANGED <<parseVars, appVars>>

LineNext == PickStart \/ PickStep \/ PickReturn \/ TopLine \/ TopLineAgain

(***************************************************************************)
(* compute_stats followed by smart_weight under flavor "hot", for a game     *)
(* large enough for five numbers to share a recency gap: the draws take a    *)
(* block of count-1 consecutive numbers, the first block or the second, and  *)
(* one number above both blocks.                                             *)
(***************************************************************************)
HotMaxN == 10
HotCount == 5
HotDraws == 3

HotMains ==
    { [i \in 1..HotCount |-> IF i < HotCount THEN blk + i ELSE x] :
        blk \in {0, HotCount - 1}, x \in (2 * (HotCount - 1) + 1)..HotMaxN }

HotDrawLists == UNION { { [i \in 1..k |-> <<i, ms[i], None>>] : ms \in [1..k -> HotMains] } : k \in 0..HotDraws }

HotInit ==
    /\ pc = "hot_entry"
    /\ draws \in HotDrawLists
    /\ lookback \in Lookbacks
    /\ stats = <<>>
    /\ flavor = "hot"
    /\ base = <<>>
    /\ picks = {}
    /\ iters = 0
    /\ line = <<>>
    /\ top = <<>>
    /\ top2 = <<>>

\* compute_stats (line 500), then smart_weight as the pickers call it (line 206, 214)
HotWeigh ==
    /\ pc = "hot_entry"
    /\ stats' = compute_stats(draws, HotMaxN, HotCount, lookback)
    /\ base' = IF draws = <<>> THEN base ELSE smart_weight(stats', HotMaxN, flavor)
    /\ pc' = "hot_done"
    /\ UNCHANGED <<draws, lookback, flavor, picks, iters, line, top, top2, fetchVars, dedupeVars>>
    /\ UNCHANGED <<parseVars, appVars>>

HotNext == HotWeigh

(***************************************************************************)
(* Page text.  The text of a page is a sequence of whitespace-separated      *)
(* tokens: a weekday name, a month name, a run of digits or another word,    *)
(* each possibly followed by a comma.  v is the weekday (1..7), the month    *)
(* (1..12) or the number written, dg the count of digits written ("09" is    *)
(* v = 9, dg = 2).  An ISO date "YYYY-MM-DD" is the integer YYYYMMDD, which   *)
(* orders as the string does.                                                *)
(***************************************************************************)
Tok(k, v, dg, comma) == [k |-> k, v |-> v, dg |-> dg, comma |-> comma]

WeekdayTok(v, comma) == Tok("weekday", v, 0, comma)

MonthTok(v) == Tok("month", v, 0, FALSE)

NumTok(v, dg, comma) == Tok("num", v, dg, comma)

WordTok == Tok("word", 0, 0, FALSE)

IsoDate(y, m, d) == y * 10000 + m * 100 + d

IsLeap(y) == (y % 4 = 0 /\ y % 100 # 0) \/ y % 400 = 0

DaysIn(m, y) ==
    IF m = 2 THEN (IF IsLeap(y) THEN 29 ELSE 28)
    ELSE IF m \in {4, 6, 9, 11} THEN 30 ELSE 31

(***************************************************************************)
(* try_parse_date (lines 80-89).                                             *)
(***************************************************************************)
\* DATE_PATTERNS: "%A %B %d %Y", "%A, %B %d, %Y", "%B %d, %Y" as the directive
\* of each token and whether the format has a comma after it.
DATE_PATTERNS ==
    << << [d |-> "%A", comma |-> FALSE], [d |-> "%B", comma |-> FALSE],
          [d |-> "%d", comma |-> FALSE], [d |-> "%Y", comma |-> FALSE] >>,
       << [d |-> "%A", comma |-> TRUE], [d |-> "%B", comma |-> FALSE],
          [d |-> "%d", comma |-> TRUE], [d |-> "%Y", comma |-> FALSE] >>,
       << [d |-> "%B", comma |-> FALSE], [d |-> "%d", comma |-> TRUE],
          [d |-> "%Y", comma |-> FALSE] >> >>

\* re.sub(r",", "", text).strip()
StripCommas(t) == [i \in DOMAIN t |-> [t[i] EXCEPT !.comma = FALSE]]

\* One token against one directive of strptime: %A a weekday name, %B a month
\* name, %d one or two digits from 1 up, %Y four digits.
DirectiveMatches(tok, d) ==
    \/ d = "%A" /\ tok.k = "weekday"
    \/ d = "%B" /\ tok.k = "month"
    \/ d = "%d" /\ tok.k = "num" /\ tok.dg \in {1, 2} /\ tok.v >= 1
    \/ d = "%Y" /\ tok.k = "num" /\ tok.dg = 4

FieldOf(t, fmt, d) == t[CHOOSE i \in DOMAIN fmt : fmt[i].d = d].v

\* datetime.strptime(t, fmt) succeeds: the whole text matches the format,
\* literal commas included, and the day exists in the month of the year.
StrptimeOk(t, fmt) ==
    /\ Len(t) = Len(fmt)
    /\ \A i \in DOMAIN fmt : DirectiveMatches(t[i], fmt[i].d) /\ t[i].comma = fmt[i].comma
    /\ FieldOf(t, fmt, "%Y") >= 1
    /\ FieldOf(t, fmt, "%d") <= DaysIn(FieldOf(t, fmt, "%B"), FieldOf(t, fmt, "%Y"))

try_parse_date(tokens) ==
    LET t == StripCommas(tokens)
        ok == {k \in DOMAIN DATE_PATTERNS : StrptimeOk(t, DATE_PATTERNS[k])}
    IN  IF ok = {} THEN None
        ELSE LET fmt == DATE_PATTERNS[Min(ok)]
             IN  IsoDate(FieldOf(t, fmt, "%Y"), FieldOf(t, fmt, "%B"), FieldOf(t, fmt, "%d"))

(***************************************************************************)
(* parse_wclc_print (lines 97-115).                                          *)
(***************************************************************************)
\* re.split(month_re, text): a block starts at each month name and ends
\* before the next one (lines 100-105).
MonthAt(t) == {i \in DOMAIN t : t[i].k = "month"}

BlockFrom(t, i) ==
    LET later == {j \in MonthAt(t) : j > i}
    IN  SubSeq(t, i, IF later = {} THEN Len(t) ELSE Min(later) - 1)

\* re.search(rf"{month}\s+\d{{1,2}},?\s+\d{{4}}", block) finds a match: the
\* month name is followed by a run of one or two digits, an optional comma,
\* and a run of four digits or more, of which the first four are matched
\* (line 106).
DateMatch(block) ==
    /\ Len(block) >= 3
    /\ ~block[1].comma
    /\ block[2].k = "num" /\ block[2].dg \in {1, 2}
    /\ block[3].k = "num" /\ block[3].dg >= 4

\* mdate.group(0): the match ends with the four digits taken for the year.
DateText(block) ==
    << block[1], block[2], NumTok(block[3].v \div 10^(block[3].dg - 4), 4, FALSE) >>

\* [int(n) for n in re.findall(r"\b\d{1,2}\b", block) if 1 <= int(n) <= max_n]
RECURSIVE InRangeNums(_, _)
InRangeNums(block, max_n) ==
    IF block = <<>> THEN <<>>
    ELSE (IF Head(block).k = "num" /\ Head(block).dg \in {1, 2}
             /\ 1 <= Head(block).v /\ Head(block).v <= max_n
          THEN <<Head(block).v>> ELSE <<>>) \o InRangeNums(Tail(block), max_n)

\* lines 106-114: the records one block appends to draws, none or one
BlockDraws(block, max_n, count) ==
    IF ~DateMatch(block) THEN <<>>
    ELSE LET date_iso == try_parse_date(DateText(block))
             nums == InRangeNums(block, max_n)
         IN  IF Len(nums) >= count
             THEN << <<date_iso, SubSeq(nums, 1, count),
                       IF Len(nums) > count THEN nums[count + 1] ELSE None>> >>
             ELSE <<>>

\* The list draws at line 115, before dedupe_by_date.
WclcDraws(t, max_n, count) ==
    LET starts == Sorted(MonthAt(t))
    IN  Flatten([j \in DOMAIN starts |-> BlockDraws(BlockFrom(t, starts[j]), max_n, count)])

parse_wclc_print(t, max_n, count) == dedupe_by_date(WclcDraws(t, max_n, count))

(***************************************************************************)
(* parse_wclc_print on page texts for Lotto 6/49.  A page is up to           *)
(* MaxBlocks draws, each written as an optional weekday, a month, a day, a   *)
(* year and the numbers drawn, with parts missing, out of range or followed  *)
(* by a stray digit in some.                                                 *)
(***************************************************************************)
MaxBlocks == 2

ParseMaxN == 49
ParseCount == 6

SaturdayTok == WeekdayTok(6, FALSE)

\* "Saturday January 4, 2025 01 05 12 23 34 47 09"
ScenarioText ==
    << SaturdayTok, MonthTok(1), NumTok(4, 1, TRUE), NumTok(2025, 4, FALSE),
       NumTok(1, 2, FALSE), NumTok(5, 2, FALSE), NumTok(12, 2, FALSE), NumTok(23, 2, FALSE),
       NumTok(34, 2, FALSE), NumTok(47, 2, FALSE), NumTok(9, 2, FALSE) >>

PageBlocks ==
    { lead \o <<MonthTok(m)>> \o day \o year \o nums :
        lead \in { <<>>, <<SaturdayTok>> },
        m \in {1, 2},
        day \in { <<NumTok(4, 1, TRUE)>>, <<NumTok(4, 1, FALSE)>>, <<NumTok(31, 2, TRUE)>>, <<WordTok>> },
        year \in { <<NumTok(2025, 4, FALSE)>>, <<NumTok(20251, 5, FALSE)>>, <<>> },
        nums \in { SubSeq(ScenarioText, 5, 11),
                   SubSeq(ScenarioText, 5, 7),
                   <<NumTok(ParseMaxN + 1, 2, FALSE)>> \o SubSeq(ScenarioText, 5, 10) } }

\* The pages of up to n blocks.
PageTexts(n) == UNION { { Flatten(bs) : bs \in [1..k -> PageBlocks] } : k \in 1..n }

ParseInit ==
    /\ pc = "parse_entry"
    /\ text \in PageTexts(MaxBlocks)
    /\ parsed = <<>>

ParseWclc ==
    /\ pc = "parse_entry"
    /\ pc' = IF DedupeRaises(WclcDraws(text, ParseMaxN, ParseCount)) THEN "parse_raised" ELSE "parse_done"
    /\ parsed' = IF DedupeRaises(WclcDraws(text, ParseMaxN, ParseCount)) THEN parsed
                 ELSE parse_wclc_print(text, ParseMaxN, ParseCount)
    /\ UNCHANGED <<text, fetchVars, dedupeVars, statsVars, lineVars, appVars>>

ParseNext == ParseWclc

(***************************************************************************)
(* LottoApp (lines 246-535): the caches, the Update History worker threads   *)
(* and the generation handlers.                                              *)
(*                                                                           *)
(* Handlers run one at a time on the main thread; every _update_worker runs  *)
(* on a thread of its own and its steps interleave with the handlers and     *)
(* with the other workers.  A step is one read or write of the shared        *)
(* caches; what a thread does between two of them touches its locals only.   *)
(*                                                                           *)
(* stats_cache[game] is None or a dict: None is written NoneStats there, a   *)
(* value different from every dict.  A bonus_line of None is NoLine.  The    *)
(* text of the lookback box is one token, the word All or a numeral; the     *)
(* numerals offered are 1..MaxAppLookback, scaled to the short draw lists.   *)
(***************************************************************************)
MaxUpdates == 2
MaxAppLookback == 1

NoneStats == [none |-> TRUE]

NoLine == <<>>

\* bool(stats): None and the empty dict are false
Truthy(st) == st # NoneStats /\ st # <<>>

\* GAMES.keys() in insertion order (lines 36, 53)
GameOrder == << "Lotto 6/49", "Lotto Max" >>

AllTok == WordTok

\* values of look_cbo (line 285)
LookbackValues == {AllTok} \cup { NumTok(n, 1, FALSE) : n \in 1..MaxAppLookback }

\* _get_lookback (lines 506-507) on the text v of the box
get_lookback(v) == IF v = AllTok THEN None ELSE v.v

\* What fetch_archives_with_fallback(game) can return to the worker: nothing
\* when offline or when no source has a record, else the records of two
\* dates of a generic page.
AppDrawLists(g) ==
    { << <<1, [i \in 1..GAMES[g].count |-> i], None>>,
         <<2, [i \in 1..GAMES[g].count |-> i + 1], GAMES[g].max_n>> >> }

AppFetchReturns(g) ==
    IF ~avail THEN { << <<>>, "offline" >> }
    ELSE { << <<>>, "none" >> } \cup { <<ds, "OLG">> : ds \in AppDrawLists(g) }

\* lines 257-258 and 253-254
AppInit ==
    /\ pc = "app"
    /\ avail \in BOOLEAN
    /\ draw_cache = [g \in GameKeys |-> <<>>]
    /\ stats_cache = [g \in GameKeys |-> NoneStats]
    /\ lookback_var = AllTok
    /\ flavor_var = "balanced"
    /\ updates = 0
    /\ workers = <<>>
    /\ gen = <<>>

\* The main thread is between two handlers.
MainIdle == IF gen = <<>> THEN TRUE ELSE gen.pcg = "done"

appOther == <<pc, game, hasSink, gi, ui, all_draws, progress, attempts, ret, raised,
              dedupeVars, statsVars, lineVars, parseVars>>

\* A worker's locals with its position in the loop.  The threads run the
\* same code and nothing tells them apart: workers is the bag of these.
Worker(gidx, pcw, ds, st) == [gidx |-> gidx, pcw |-> pcw, draws |-> ds, stats |-> st]

Replace(w, ws) == (workers (-) SetToBag({w})) (+) ws

\* update_history (lines 484-487): a click starts a thread, whatever runs.
UpdateHistory ==
    /\ MainIdle
    /\ updates < MaxUpdates
    /\ updates' = updates + 1
    /\ workers' = workers (+) SetToBag({Worker(1, "fetch", <<>>, NoneStats)})
    /\ UNCHANGED <<avail, draw_cache, stats_cache, lookback_var, flavor_var, gen, appOther>>

\* The worker goes on to the next game of the loop, or ends (lines 491, 502).
Advance(w) ==
    IF w.gidx < Len(GameOrder)
    THEN Replace(w, SetToBag({Worker(w.gidx + 1, "fetch", <<>>, NoneStats)}))
    ELSE Replace(w, EmptyBag)

\* lines 493-495: the fetch returns and draw_cache[game] is written
WorkerFetch(w) ==
    /\ w.pcw = "fetch"
    /\ \E r \in AppFetchReturns(GameOrder[w.gidx]) :
        /\ draw_cache' = [draw_cache EXCEPT ![GameOrder[w.gidx]] = r[1]]
        /\ workers' = Replace(w, SetToBag({Worker(w.gidx,
                                                  IF r[2] = "none" \/ r[1] = <<>>
                                                  THEN "no_draws" ELSE "compute",
                                                  r[1], NoneStats)}))
    /\ UNCHANGED <<avail, stats_cache, lookback_var, flavor_var, updates, gen, appOther>>

\* lines 496-498
WorkerNoDraws(w) ==
    /\ w.pcw = "no_draws"
    /\ stats_cache' = [stats_cache EXCEPT ![GameOrder[w.gidx]] = NoneStats]
    /\ workers' = Advance(w)
    /\ UNCHANGED <<avail, draw_cache, lookback_var, flavor_var, updates, gen, appOther>>

\* line 500: lookback_var is read and the local stats computed from the local draws
WorkerCompute(w) ==
    /\ w.pcw = "compute"
    /\ workers' = Replace(w, SetToBag({Worker(w.gidx, "publish", <<>>,
                        compute_stats(w.draws, GAMES[GameOrder[w.gidx]].max_n,
                                      GAMES[GameOrder[w.gidx]].count,
                                      get_lookback(lookback_var)))}))
    /\ UNCHANGED <<avail, draw_cache, stats_cache, lookback_var, flavor_var, updates, gen, appOther>>

\* line 501
WorkerPublish(w) ==
    /\ w.pcw = "publish"
    /\ stats_cache' = [stats_cache EXCEPT ![GameOrder[w.gidx]] = w.stats]
    /\ workers' = Advance(w)
    /\ UNCHANGED <<avail, draw_cache, lookback_var, flavor_var, updates, gen, appOther>>

\* The user picks another value in look_cbo or style_cbo (lines 283, 285).
ChangeLookback ==
    /\ MainIdle
    /\ lookback_var' \in LookbackValues \ {lookback_var}
    /\ UNCHANGED <<avail, draw_cache, stats_cache, flavor_var, updates, workers, gen, appOther>>

ChangeFlavor ==
    /\ MainIdle
    /\ flavor_var' \in Flavors \ {flavor_var}
    /\ UNCHANGED <<avail, draw_cache, stats_cache, lookback_var, updates, workers, gen, appOther>>

NoDisplay == <<>>

\* lines 378-382 and 390-391: a handler starts and binds its local stats
GenRead(op, g) ==
    /\ MainIdle
    /\ gen' = [op |-> op, game |-> g, stats |-> stats_cache[g], pcg |-> "read",
               calls |-> <<>>, out |-> NoDisplay]
    /\ UNCHANGED <<avail, draw_cache, stats_cache, lookback_var, flavor_var, updates, workers, appOther>>

StatsAtCallFromCache(snapshot, cached) == cached

\* The stats a handler gives to the pickers: its local, bound at line 382 or
\* 391, whatever stats_cache holds by the time of the call.
StatsAtCall(snapshot, cached) == snapshot

\* The snapshots _update_worker can store for game g (line 500) ...
AppSnapshots(g) ==
    { compute_stats(ds, GAMES[g].max_n, GAMES[g].count, get_lookback(v)) :
        ds \in AppDrawLists(g), v \in LookbackValues }

\* ... and top_probability_line on each of them, computed once.
TopLines ==
    [g \in GameKeys |-> [fl \in Flavors |-> [st \in AppSnapshots(g) |->
        top_probability_line(st, GAMES[g].max_n, GAMES[g].count, fl)]]]

\* top_probability_line as the handler calls it; on a stats that is None it
\* raises and the handler ends without a display.
BonusLine(st, g, fl) ==
    IF st \in AppSnapshots(g) THEN TopLines[g][fl][st]
    ELSE IF Truthy(st) THEN top_probability_line(st, GAMES[g].max_n, GAMES[g].count, fl)
    ELSE NoLine

\* lines 383-387: the three random lines are displayed, with the bonus line
\* if the local stats is true; the numbers of the random lines are not kept.
QuickRun ==
    LET arg == StatsAtCall(gen.stats, stats_cache[gen.game])
    IN  IF Truthy(gen.stats)
        THEN [gen EXCEPT !.pcg = "done", !.calls = <<arg>>,
                         !.out = IF Truthy(arg)
                                 THEN [method |-> <<"Quick Pick">>, lines |-> 3,
                                       bonus_line |-> BonusLine(arg, gen.game, "balanced")]
                                 ELSE NoDisplay]
        ELSE [gen EXCEPT !.pcg = "done",
                         !.out = [method |-> <<"Quick Pick">>, lines |-> 3, bonus_line |-> NoLine]]

\* lines 392-397: a warning and nothing else if the local stats is false,
\* else three smart_pick lines and the bonus line of the flavor selected.
SmartRun ==
    LET arg == StatsAtCall(gen.stats, stats_cache[gen.game])
    IN  IF ~Truthy(gen.stats) THEN [gen EXCEPT !.pcg = "done"]
        ELSE [gen EXCEPT !.pcg = "done", !.calls = <<arg, arg, arg, arg>>,
                         !.out = IF Truthy(arg)
                                 THEN [method |-> <<"Smart:", flavor_var>>, lines |-> 3,
                                       bonus_line |-> BonusLine(arg, gen.game, flavor_var)]
                                 ELSE NoDisplay]

GenRun ==
    /\ gen # <<>>
    /\ gen.pcg = "read"
    /\ gen' = IF gen.op = "quick" THEN QuickRun ELSE SmartRun
    /\ UNCHANGED <<avail, draw_cache, stats_cache, lookback_var, flavor_var, updates, workers, appOther>>

AppNext ==
    \/ UpdateHistory
    \/ \E w \in BagToSet(workers) : WorkerFetch(w)
    \/ \E w \in BagToSet(workers) : WorkerNoDraws(w)
    \/ \E w \in BagToSet(workers) : WorkerCompute(w)
    \/ \E w \in BagToSet(workers) : WorkerPublish(w)
    \/ ChangeLookback
    \/ ChangeFlavor
    \/ \E op \in {"quick", "smart"}, g \in GameKeys : GenRead(op, g)
    \/ GenRun

(***************************************************************************)
(* Specifications: one per operation.  The variables of the other           *)
(* operations keep the value they have while those are not running.          *)
(***************************************************************************)
DedupeIdle == dd_in = <<>> /\ dd_out = <<>>

StatsIdle == draws = <<>> /\ lookback = None /\ stats = <<>>

LineIdle ==
    /\ flavor = "balanced"
    /\ base = <<>>
    /\ picks = {}
    /\ iters = 0
    /\ line = <<>>
    /\ top = <<>>
    /\ top2 = <<>>

ParseIdle == text = <<>> /\ parsed = <<>>

AppIdle ==
    /\ draw_cache = <<>>
    /\ stats_cache = <<>>
    /\ lookback_var = None
    /\ flavor_var = "balanced"
    /\ updates = 0
    /\ workers = <<>>
    /\ gen = <<>>

FetchStart == FetchInit /\ DedupeIdle /\ StatsIdle /\ LineIdle /\ ParseIdle /\ AppIdle

FetchSpec == FetchStart /\ [][FetchNext]_vars

DedupeStart == DedupeInit /\ FetchIdle /\ StatsIdle /\ LineIdle /\ ParseIdle /\ AppIdle

DedupeSpec == DedupeStart /\ [][DedupeNext]_vars

StatsStart == StatsInit /\ FetchIdle /\ DedupeIdle /\ LineIdle /\ ParseIdle /\ AppIdle

StatsSpec == StatsStart /\ [][StatsNext]_vars

LineStart == LineInit /\ FetchIdle /\ DedupeIdle /\ ParseIdle /\ AppIdle

LineSpec == LineStart /\ [][LineNext]_vars

HotStart == HotInit /\ FetchIdle /\ DedupeIdle /\ ParseIdle /\ AppIdle

HotSpec == HotStart /\ [][HotNext]_vars

ParseStart == ParseInit /\ FetchIdle /\ DedupeIdle /\ StatsIdle /\ LineIdle /\ AppIdle

ParseSpec == ParseStart /\ [][ParseNext]_vars

AppStart ==
    /\ AppInit
    /\ game = "Lotto 6/49" /\ hasSink = FALSE /\ gi = 1 /\ ui = 1
    /\ all_draws = <<>> /\ progress = <<>> /\ attempts = <<>> /\ ret = NoRet /\ raised = FALSE
    /\ DedupeIdle /\ StatsIdle /\ LineIdle /\ ParseIdle

AppSpec == AppStart /\ [][AppNext]_vars

(***************************************************************************)
(* Claims about fetch_archives_with_fallback, checked under FetchSpec.       *)
(***************************************************************************)
NGroups == Len(Groups(game))

\* The urls of the game in configured order: group by group, url by url.
UrlOrder == Flatten([g \in 1..NGroups |-> [u \in 1..Len(Groups(game)[g].urls) |-> <<g, u>>]])

AttemptsOf(g) == SelectSeq(attempts, LAMBDA a : a.g = g)

\* What the pages fetched for group g hold, deduplicated across the group.
YieldOf(g) == dedupe_by_date(Flatten([k \in DOMAIN AttemptsOf(g) |-> AttemptsOf(g)[k].parsed]))

Returned == pc = "fetch_done" /\ ~raised

\* C1: the groups are attempted in their configured order, and the function
\* returns (records, label) of the first group whose pages yield a record
\* after de-duplication; no url of a later group is fetched once a group has
\* yielded.
C1_FirstSuccessWins ==
    /\ \A k \in DOMAIN attempts : <<attempts[k].g, attempts[k].u>> = UrlOrder[k]
    /\ \A k \in DOMAIN attempts : \A g \in 1..(attempts[k].g - 1) : YieldOf(g) = <<>>
    /\ (Returned /\ avail) =>
        LET won == {g \in 1..NGroups : YieldOf(g) # <<>>}
        IN  IF won = {} THEN ret = << <<>>, "none" >>
            ELSE /\ ret = <<YieldOf(Min(won)), Groups(game)[Min(won)].label>>
                 /\ \A k \in DOMAIN attempts : attempts[k].g <= Min(won)

\* The second group wins after the first yielded nothing: the third is never fetched.
C1_Witness ==
    /\ Returned
    /\ ret[2] = "OLG"
    /\ Len(AttemptsOf(1)) = 2
    /\ Len(attempts) = 4
    /\ Len(ret[1]) = 2

\* C2: an empty record list is returned only as "offline", when requests or
\* BeautifulSoup is missing and no url was attempted, or as "none", when every
\* url of every group was attempted and every group yielded nothing; any other
\* return is a non-empty list with a group's label; no exception leaves the
\* function.
C2_EmptyOnlyOfflineOrNone ==
    /\ ~raised
    /\ attempts # <<>> => avail
    /\ pc = "fetch_done" =>
        /\ ret # NoRet
        /\ ~avail => ret = << <<>>, "offline" >>
        /\ ret[1] = <<>> =>
            \/ ret[2] = "offline" /\ ~avail /\ attempts = <<>>
            \/ /\ ret[2] = "none" /\ avail
               /\ Len(attempts) = Len(UrlOrder)
               /\ \A g \in 1..NGroups : YieldOf(g) = <<>>
        /\ ret[1] # <<>> => ret[2] \in {Groups(game)[g].label : g \in 1..NGroups}

\* Every url failed or parsed to nothing: "none" after all five attempts.
C2_Witness ==
    /\ Returned
    /\ ret = << <<>>, "none" >>
    /\ Len(attempts) = Len(UrlOrder)
    /\ \E k \in DOMAIN attempts : attempts[k].kind = "exc"

\* A group that is over: a later group is being tried, or the function returned.
GroupOver(g) == g < gi \/ (g = gi /\ pc = "fetch_done" /\ avail)

\* C3: a url that fails (status not 200, or an exception) does not end its
\* group: every url of the group is still fetched in order, and the records of
\* the urls that parsed are all accumulated and make the group's yield.
C3_UrlFailureKeepsGroup ==
    /\ \A g \in 1..NGroups : GroupOver(g) =>
            /\ Len(AttemptsOf(g)) = Len(Groups(game)[g].urls)
            /\ \A k \in DOMAIN AttemptsOf(g) : AttemptsOf(g)[k].u = k
    /\ pc = "fetch_urls" =>
            /\ \A k \in DOMAIN AttemptsOf(gi) : AttemptsOf(gi)[k].u = k
            /\ Len(AttemptsOf(gi)) = ui - 1
            /\ all_draws = Flatten([k \in DOMAIN AttemptsOf(gi) |-> AttemptsOf(gi)[k].parsed])
    /\ (Returned /\ avail /\ ret[1] # <<>>) => ret[1] = YieldOf(gi)

\* The first url of a group raises, the second parses to records, and those
\* records are returned.
C3_Witness ==
    /\ Returned
    /\ ret[1] # <<>>
    /\ Len(AttemptsOf(gi)) = 2
    /\ AttemptsOf(gi)[1].kind = "exc"
    /\ AttemptsOf(gi)[2].kind = "ok"
    /\ ret[1] = AttemptsOf(gi)[2].parsed

\* The progress event of one attempt: a skip, a parse count or an error.
EventOf(a) ==
    [label |-> Groups(game)[a.g].label,
     kind |-> IF a.kind = "http" THEN "Skip" ELSE IF a.kind = "ok" THEN "Parsed" ELSE "Error",
     url |-> Groups(game)[a.g].urls[a.u],
     n |-> IF a.kind = "ok" THEN Len(a.parsed) ELSE None]

\* C4 as amended: the sink receives, in the order emitted, exactly one event
\* per url attempt and nothing else: the fetcher emits no group-level event,
\* so a group that yields nothing is visible only through the events of its
\* urls (a failure message per failed url, a count of 0 per empty page).
C4_OneEventPerUrlAttemptOnly ==
    /\ hasSink => progress = [k \in DOMAIN attempts |-> EventOf(attempts[k])]
    /\ ~hasSink => progress = <<>>

\* The first group's urls answer with an error status, the second group's
\* pages parse to nothing, the third group yields: five events, none of them
\* about a group.
C4_Witness ==
    /\ Returned /\ hasSink
    /\ ret[2] = "ALC"
    /\ Len(progress) = 5
    /\ progress[1].kind = "Skip" /\ progress[2].kind = "Skip"
    /\ progress[3].kind = "Parsed" /\ progress[3].n = 0
    /\ progress[4].kind = "Parsed" /\ progress[4].n = 0
    /\ progress[5].kind = "Parsed" /\ progress[5].n > 0

\* C4 as stated: one event per url attempt and one per group-level outcome,
\* so that the sink holds as many events as urls attempted plus groups tried.
C4_EventPerUrlAndPerGroup ==
    (pc = "fetch_done" /\ hasSink /\ avail) => Len(progress) = Len(attempts) + gi

(***************************************************************************)
(* Claims about dedupe_by_date, checked under DedupeSpec.                    *)
(***************************************************************************)
DatesOf(s) == {s[i][1] : i \in DOMAIN s}

LastWith(s, d) == s[CHOOSE i \in DOMAIN s : s[i][1] = d /\ \A j \in DOMAIN s : s[j][1] = d => j <= i]

\* C5: the list returned holds exactly one record per distinct date of the
\* input, in ascending date order, no date the input lacks, and for each date
\* the (main, bonus) of the last input record carrying it.
C5_OnePerDateLastWins ==
    pc = "dedupe_done" =>
        /\ DatesOf(dd_out) = DatesOf(dd_in)
        /\ Len(dd_out) = Cardinality(DatesOf(dd_in))
        /\ \A i, j \in DOMAIN dd_out : i < j => dd_out[i][1] < dd_out[j][1]
        /\ \A i \in DOMAIN dd_out : dd_out[i] = LastWith(dd_in, dd_out[i][1])

\* Three records out of date order, two of them on the same date with
\* different numbers: two records come back.
C5_Witness ==
    /\ pc = "dedupe_done"
    /\ Len(dd_in) = 3
    /\ dd_in[1][1] = dd_in[3][1]
    /\ dd_in[1] # dd_in[3]
    /\ dd_in[2][1] < dd_in[1][1]
    /\ Len(dd_out) = 2

(***************************************************************************)
(* Claims about compute_stats, checked under StatsSpec.                      *)
(***************************************************************************)
HasStats == pc = "stats_done" /\ draws # <<>>

IsPermutation(ranking, max_n) ==
    /\ Len(ranking) = max_n
    /\ \A n \in 1..max_n : Cardinality({k \in DOMAIN ranking : ranking[k][1] = n}) = 1

\* C7: for a non-empty draw list and any lookback, the hot, cold and overdue
\* rankings each list every number of 1..max_n exactly once, numbers never
\* drawn included.
C7_RankingsArePermutations ==
    HasStats =>
        /\ IsPermutation(stats.hot, MaxN)
        /\ IsPermutation(stats.cold, MaxN)
        /\ IsPermutation(stats.overdue, MaxN)

\* A snapshot in which some number was never drawn.
C7_Witness ==
    /\ HasStats
    /\ \E n \in 1..MaxN : stats.freq[n] = 0
    /\ \E n \in 1..MaxN : stats.freq[n] > 1

\* The draws analysed: the trailing lookback draws, or all of them.
Analysed == IF lookback # None /\ lookback < Len(draws) THEN lookback ELSE Len(draws)

Occurrences(n) ==
    SumSeq([k \in 1..Analysed |->
        Cardinality({j \in 1..Count : draws[Len(draws) - Analysed + k][2][j] = n})])

\* C8: the frequencies of a snapshot add up to sample_size * count, where
\* sample_size is the number of draws analysed, the trailing lookback draws
\* when a lookback is given, and freq counts the occurrences in those draws.
C8_FrequenciesSumToSampleTimesCount ==
    HasStats =>
        /\ stats.sample_size = Analysed
        /\ SumSeq([n \in 1..MaxN |-> stats.freq[n]]) = stats.sample_size * Count
        /\ \A n \in 1..MaxN : stats.freq[n] = Occurrences(n)

\* A lookback shorter than the draw list: only the last draw is counted.
C8_Witness ==
    /\ HasStats
    /\ Len(draws) = 2
    /\ lookback = 1
    /\ stats.sample_size = 1
    /\ draws[1][2] # draws[2][2]

(***************************************************************************)
(* Claims about smart_pick and top_probability_line, checked under LineSpec. *)
(***************************************************************************)
Ascending(l) == \A i, j \in DOMAIN l : i < j => l[i] < l[j]

\* C6: smart_pick ends after exactly count iterations with count distinct
\* numbers of 1..max_n in ascending order: every iteration selects a number
\* whose weight is still positive, never one already zeroed.
C6_PickReturnsCountDistinct ==
    /\ pc \in {"pick_loop", "pick_done"} =>
        /\ iters = Cardinality(picks)
        /\ iters <= Count
        /\ picks \subseteq 1..MaxN
        /\ \A n \in 1..MaxN : (n \in picks) <=> (base[n] = FZero)
        /\ Cardinality(picks) < Count => Choices(base, MaxN) # {}
    /\ pc = "pick_done" =>
        /\ iters = Count
        /\ Len(line) = Count
        /\ Range(line) = picks
        /\ Ascending(line)

\* A line returned under flavor "hot" whose numbers were not picked in order.
C6_Witness ==
    /\ pc = "pick_done"
    /\ flavor = "hot"
    /\ Len(line) = Count
    /\ base[MaxN] = FZero /\ FLess(FZero, base[1])

\* The weight smart_weight gives number n on the snapshot.
WeightOf(n) == smart_weight(stats, MaxN, flavor)[n]

\* Number n ranks before number m: it is heavier, or as heavy and lower.
RanksBefore(n, m) ==
    \/ FLess(WeightOf(m), WeightOf(n))
    \/ (WeightOf(m) = WeightOf(n) /\ n < m)

GapOf(n) == stats.overdue[CHOOSE k \in DOMAIN stats.overdue : stats.overdue[k][1] = n][2]

HighestFreqAndGap(n) ==
    \A k \in 1..HotMaxN : stats.freq[k] <= stats.freq[n] /\ GapOf(k) <= GapOf(n)

\* C10: under flavor "hot" a number of highest frequency and highest recency
\* gap weighs strictly more than any number of the same recency gap and a
\* lower frequency.
C10_HotFrequencyOutweighsTie ==
    (pc = "hot_done" /\ draws # <<>>) =>
        \A n, m \in 1..HotMaxN :
            (HighestFreqAndGap(n) /\ GapOf(m) = GapOf(n) /\ stats.freq[m] < stats.freq[n])
                => FLess(base[m], base[n])

(***************************************************************************)
(* Claims about parse_wclc_print, checked under ParseSpec.                   *)
(***************************************************************************)
\* C11: the page text "Saturday January 4, 2025 01 05 12 23 34 47 09" with
\* max_n = 49 and count = 6 gives exactly one record, dated 2025-01-04, with
\* main numbers 1, 5, 12, 23, 34, 47 and bonus 9: the digits of the date are
\* not taken as drawn numbers.
C11_ScenarioRecord ==
    (pc = "parse_done" /\ text = ScenarioText) =>
        parsed = << <<IsoDate(2025, 1, 4), <<1, 5, 12, 23, 34, 47>>, 9>> >>

\* C12: a block gives a record only if it has count numbers in range and a
\* date that normalizes to an ISO date, so no record the parser returns lacks
\* its date.
C12_NoRecordWithoutDate ==
    pc = "parse_done" => \A i \in DOMAIN parsed : parsed[i][1] # None

(***************************************************************************)
(* Claims about LottoApp, checked under AppSpec.                             *)
(***************************************************************************)
\* C13: at most one update is in flight at any time: a second _update_worker
\* never runs while an earlier one has not finished.
C13_OneUpdateInFlight == BagCardinality(workers) <= 1

\* C14: a stats_cache[game] that is not None was computed from the current
\* draw_cache[game] with the lookback currently selected.
C14_SnapshotIsCurrent ==
    \A g \in GameKeys :
        stats_cache[g] # NoneStats =>
            stats_cache[g] = compute_stats(draw_cache[g], GAMES[g].max_n, GAMES[g].count,
                                           get_lookback(lookback_var))

\* C15: whatever the workers do meanwhile, a handler never gives the pickers
\* a stats that is None or empty: every call gets the stats that passed the
\* handler's check; without one, Smart Pick displays nothing and calls
\* nothing, and Quick Pick displays its 3 lines with no bonus line.
Ran == gen # <<>> /\ gen.pcg = "done"

C15_PickersGetCheckedSnapshot ==
    Ran =>
        /\ \A k \in DOMAIN gen.calls : Truthy(gen.calls[k]) /\ gen.calls[k] = gen.stats
        /\ Truthy(gen.stats) =>
                /\ gen.calls # <<>>
                /\ gen.out # NoDisplay /\ gen.out.lines = 3 /\ gen.out.bonus_line # NoLine
        /\ (~Truthy(gen.stats) /\ gen.op = "smart") => (gen.calls = <<>> /\ gen.out = NoDisplay)
        /\ (~Truthy(gen.stats) /\ gen.op = "quick") =>
                /\ gen.calls = <<>>
                /\ gen.out = [method |-> <<"Quick Pick">>, lines |-> 3, bonus_line |-> NoLine]

\* A handler called the pickers with its snapshot and stats_cache[game] has
\* been reset to None by a worker meanwhile.
C15_Witness ==
    /\ Ran
    /\ Truthy(gen.stats)
    /\ gen.calls # <<>>
    /\ stats_cache[gen.game] = NoneStats

====
